---- MODULE Spec2Model ----
(***************************************************************************)
(* Dispatch core of the assistant: the package registry (regPkgs), the    *)
(* route resolver (getPkg) and the dispatcher (callPkg).                   *)
(* Strings are sequences of one-character strings so that lowercasing,    *)
(* apostrophe splitting, concatenation and title-casing are computed.     *)
(***************************************************************************)
EXTENDS Integers, Sequences, FiniteSets, TLC

(* ---------------------------------------------------------------------- *)
(* Bounds                                                                  *)
(* ---------------------------------------------------------------------- *)
MaxRegs == 2       \* successful registrations in a run
MaxCmds == 2       \* command tokens in an utterance
MaxObjs == 2       \* object tokens in an utterance
MaxConcTokens == 1 \* tokens of each kind in an utterance resolved while
                   \* registrations are in progress

(* ---------------------------------------------------------------------- *)
(* strings                                                                 *)
(* ---------------------------------------------------------------------- *)
Uppers == <<"A","B","C","D","E","F","G","H","I","J","K","L","M",
            "N","O","P","Q","R","S","T","U","V","W","X","Y","Z">>
Lowers == <<"a","b","c","d","e","f","g","h","i","j","k","l","m",
            "n","o","p","q","r","s","t","u","v","w","x","y","z">>
Digits == {"0","1","2","3","4","5","6","7","8","9"}

Chars == {Uppers[i] : i \in 1..26} \cup {Lowers[i] : i \in 1..26}
            \cup Digits \cup {"_", "'", ".", " "}

IndexIn(seq, ch) == CHOOSE i \in 1..Len(seq) : seq[i] = ch

\* unicode.ToLower / unicode.ToUpper on the characters above
LowerOf ==
    [ch \in Chars |-> IF \E i \in 1..26 : Uppers[i] = ch
                      THEN Lowers[IndexIn(Uppers, ch)] ELSE ch]

UpperOf ==
    [ch \in Chars |-> IF \E i \in 1..26 : Lowers[i] = ch
                      THEN Uppers[IndexIn(Lowers, ch)] ELSE ch]

\* Go's isSeparator on ASCII: letters, digits and underscore are not
Separators ==
    {ch \in Chars : ~ (\/ \E i \in 1..26 : Uppers[i] = ch
                       \/ \E i \in 1..26 : Lowers[i] = ch
                       \/ ch \in Digits
                       \/ ch = "_")}

\* strings.ToLower
ToLower(s) == [i \in 1..Len(s) |-> LowerOf[s[i]]]

\* strings.Split(s, "'")[0]: the part of s before the first apostrophe
SplitFirst(s) ==
    IF \E i \in 1..Len(s) : s[i] = "'"
    THEN SubSeq(s, 1, (CHOOSE i \in 1..Len(s) :
                          s[i] = "'" /\ \A j \in 1..(i-1) : s[j] # "'") - 1)
    ELSE s

\* strings.Title: upper-case the first letter of every word
Title(s) ==
    [i \in 1..Len(s) |->
        IF i = 1 \/ s[i-1] \in Separators THEN UpperOf[s[i]] ELSE s[i]]

(* ---------------------------------------------------------------------- *)
(* string literals of the program and the vocabulary of the model         *)
(* ---------------------------------------------------------------------- *)
Underscore == <<"_">>
OnboardKey == <<"o","n","b","o","a","r","d">>
DotRun == <<".","R","u","n">>
DotFollowUp == <<".","F","o","l","l","o","w","U","p">>

ErrNil == "nil"
ErrMissingPackage == "ErrMissingPackage"
ErrDial == "ErrDial"
ErrDB == "ErrDB"
ErrRPC == "ErrRPC"

sGet == <<"g","e","t">>
sGetCap == <<"G","e","t">>
sGetLit == <<"G","e","t","'","s">>
sForecast == <<"f","o","r","e","c","a","s","t">>
sForecastCap == <<"F","o","r","e","c","a","s","t">>
sNews == <<"n","e","w","s">>
sNewsLit == <<"N","e","w","s","'","1">>
sWeather == <<"w","e","a","t","h","e","r">>

\* *pkg.Pkg values that skills register with
Pkgs ==
    { [Name |-> sWeather, Commands |-> <<sGet>>, Objects |-> <<sForecast>>],
      [Name |-> sNews, Commands |-> <<sGetCap>>,
                       Objects |-> <<sNews, sForecastCap>>],
      [Name |-> OnboardKey, Commands |-> <<OnboardKey>>, Objects |-> <<>>],
      [Name |-> sWeather, Commands |-> <<sForecast>>, Objects |-> <<sNews>>] }

Users == {"u1"}
NoUser == "none"
CmdTokens == {sGet, sGetLit, sForecast}
ObjTokens == {sForecast, sNewsLit}

SeqsUpTo(S, n) == UNION {[1..k -> S] : k \in 0..n}
CmdSeqs == SeqsUpTo(CmdTokens, MaxCmds)
ObjSeqs == SeqsUpTo(ObjTokens, MaxObjs)

VARIABLES
    regPkgs,    \* the registry map
    regs,       \* history: the successful registrations, oldest first
    db,         \* persistence: the stored LastResponse of every user
    consumed,   \* history: the stored LastResponse of the user has resolved
                \* a route since it was stored
    last,       \* the operation just performed, its inputs and its results
    gr          \* the goroutines that run a handler step by step, and where
                \* each one is

vars == <<regPkgs, regs, db, consumed, last, gr>>

\* a nil pointer / absent value is the empty sequence, a present one <<v>>
Nil == <<>>

(* ---------------------------------------------------------------------- *)
(* RegisterPackage                                                         *)
(* ---------------------------------------------------------------------- *)
\* variant: an entry already present is kept (first writer wins)
Insert_keepFirst(reg, k, e) ==
    IF k \in DOMAIN reg THEN reg
    ELSE [x \in (DOMAIN reg) \cup {k} |-> IF x = k THEN e ELSE reg[x]]

\* regPkgs[s] = &pkg.PkgWrapper{P: p, RPCClient: cl}
Insert(reg, k, e) ==
    [x \in (DOMAIN reg) \cup {k} |-> IF x = k THEN e ELSE reg[x]]

\* the duplicate check in front of the compound-key insertion
WarnCompound(reg, s) == s \in DOMAIN reg

\* there is no check in front of the bare-command insertion
WarnBare(reg, c) == FALSE

\* variant: the command token is used as it comes
CmdKey_asIs(c) == c

\* c = strings.ToLower(c)
CmdKey(c) == ToLower(c)

\* st = [reg, warns, ins]: the registry, the warnings logged so far (package
\* name, key) and the insertions made so far (key, whether the key was
\* present, whether the insertion logged a warning)
RECURSIVE RegObjs(_, _, _, _, _)
RegObjs(st, p, e, c, j) ==
    IF j > Len(p.Objects) THEN st
    ELSE LET s == ToLower(c \o Underscore \o p.Objects[j])
             w == WarnCompound(st.reg, s)
         IN RegObjs([reg |-> Insert(st.reg, s, e),
                     warns |-> IF w THEN Append(st.warns, <<p.Name, s>>)
                               ELSE st.warns,
                     ins |-> Append(st.ins,
                                [key |-> s, present |-> s \in DOMAIN st.reg,
                                 warned |-> w])],
                    p, e, c, j + 1)

RECURSIVE RegCmds(_, _, _, _)
RegCmds(st, p, e, i) ==
    IF i > Len(p.Commands) THEN st
    ELSE LET c == CmdKey(p.Commands[i])
             st1 == RegObjs(st, p, e, c, 1)
             w == WarnBare(st1.reg, c)
         IN RegCmds([reg |-> Insert(st1.reg, c, e),
                     warns |-> IF w THEN Append(st1.warns, <<p.Name, c>>)
                               ELSE st1.warns,
                     ins |-> Append(st1.ins,
                                [key |-> c, present |-> c \in DOMAIN st1.reg,
                                 warned |-> w])],
                    p, e, i + 1)

\* variant: the triggers are inserted before the error of rpc.Dial is looked at
RegisterPackageFn_lateErrCheck(reg, p, cl, dialOk) ==
    LET st == RegCmds([reg |-> reg, warns |-> <<>>, ins |-> <<>>],
                      p, [P |-> p, RPCClient |-> cl], 1)
    IN [reg |-> st.reg, warns |-> st.warns, ins |-> st.ins,
        err |-> IF dialOk THEN ErrNil ELSE ErrDial]

\* variant: a registration first removes the keys the same skill holds
RegisterPackageFn_dropsOld(reg, p, cl, dialOk) ==
    IF ~dialOk
    THEN [reg |-> reg, warns |-> <<>>, ins |-> <<>>, err |-> ErrDial]
    ELSE LET kept == {k \in DOMAIN reg : reg[k].P.Name # p.Name}
             st == RegCmds([reg |-> [k \in kept |-> reg[k]],
                            warns |-> <<>>, ins |-> <<>>],
                           p, [P |-> p, RPCClient |-> cl], 1)
         IN [reg |-> st.reg, warns |-> st.warns, ins |-> st.ins,
             err |-> ErrNil]

\* the whole handler, as a function of the registry, the descriptor, the
\* connection rpc.Dial would open and whether rpc.Dial succeeds
RegisterPackageFn(reg, p, cl, dialOk) ==
    IF ~dialOk
    THEN [reg |-> reg, warns |-> <<>>, ins |-> <<>>, err |-> ErrDial]
    ELSE LET st == RegCmds([reg |-> reg, warns |-> <<>>, ins |-> <<>>],
                           p, [P |-> p, RPCClient |-> cl], 1)
         IN [reg |-> st.reg, warns |-> st.warns, ins |-> st.ins,
             err |-> ErrNil]
(* ---------------------------------------------------------------------- *)
(* getPkg                                                                  *)
(* ---------------------------------------------------------------------- *)
\* p = regPkgs[k]
Lookup(reg, k) == IF k \in DOMAIN reg THEN <<reg[k]>> ELSE Nil

\* a message: m.User, m.Input.StructuredInput.{Commands,Objects},
\* m.LastResponse, m.Route
Msg(user, cmds, objs, lr, route) ==
    [User |-> user, Commands |-> cmds, Objects |-> objs,
     LastResponse |-> lr, Route |-> route]

\* variant: the onboarding package is looked up under "Onboard"
getPkgOnboard_titleKey(reg, m) ==
    LET p == Lookup(reg, Title(OnboardKey))
    IN IF p # Nil
       THEN [p |-> p, route |-> OnboardKey, lastRoute |-> FALSE,
             err |-> ErrNil, m |-> m, ret |-> 63, brk |-> FALSE]
       ELSE [p |-> Nil, route |-> OnboardKey, lastRoute |-> FALSE,
             err |-> ErrMissingPackage, m |-> m, ret |-> 66, brk |-> FALSE]

\* the branch for m.User == nil
getPkgOnboard(reg, m) ==
    LET p == Lookup(reg, OnboardKey)
    IN IF p # Nil
       THEN [p |-> p, route |-> OnboardKey, lastRoute |-> FALSE,
             err |-> ErrNil, m |-> m, ret |-> 63, brk |-> FALSE]
       ELSE [p |-> Nil, route |-> OnboardKey, lastRoute |-> FALSE,
             err |-> ErrMissingPackage, m |-> m, ret |-> 66, brk |-> FALSE]

\* variant: shortRoute is not reset on the exact match
ExactHit_keepShort(st, p, route) ==
    [p |-> p, route |-> route, shortRoute |-> st.shortRoute, brk |-> TRUE]

\* the compound key is registered: shortRoute = ""; break Loop
ExactHit(st, p, route) ==
    [p |-> p, route |-> route, shortRoute |-> <<>>, brk |-> TRUE]

\* st = [p, route, shortRoute, brk]: the locals of getPkg and whether the
\* labelled break was taken
RECURSIVE LoopObjs(_, _, _, _, _)
LoopObjs(reg, c, objs, j, st) ==
    IF j > Len(objs) THEN st
    ELSE LET o == SplitFirst(objs[j])
             route == ToLower(c \o Underscore \o o)
             p == Lookup(reg, route)
         IN IF p # Nil
            THEN ExactHit(st, p, route)
            ELSE LET po == Lookup(reg, o)
                 IN LoopObjs(reg, c, objs, j + 1,
                        [p |-> po, route |-> route,
                         shortRoute |-> IF po # Nil THEN o ELSE st.shortRoute,
                         brk |-> FALSE])

RECURSIVE LoopCmds(_, _, _, _, _)
LoopCmds(reg, cmds, objs, i, st) ==
    IF i > Len(cmds) THEN st
    ELSE LET c == SplitFirst(cmds[i])
             st1 == LoopObjs(reg, c, objs, 1, st)
         IN IF st1.brk THEN st1
            ELSE LET pc == Lookup(reg, c)
                 IN LoopCmds(reg, cmds, objs, i + 1,
                        [p |-> pc, route |-> st1.route,
                         shortRoute |-> IF pc # Nil THEN c ELSE st1.shortRoute,
                         brk |-> FALSE])

\* m.GetLastResponse(db): the read-only persistence lookup; fail is the
\* outcome of the query
GetLastResponse(dbv, m, fail) ==
    IF fail THEN [err |-> ErrDB, m |-> m]
    ELSE [err |-> ErrNil, m |-> [m EXCEPT !.LastResponse = dbv[m.User]]]

\* variant: m.LastResponse is set to nil before its route is looked up
getPkgLast_clearsEarly(reg, dbv, m, route, dbFail) ==
    LET g == GetLastResponse(dbv, m, dbFail)
    IN IF g.err # ErrNil
       THEN [p |-> Nil, route |-> route, lastRoute |-> FALSE,
             err |-> g.err, m |-> g.m, ret |-> 100, brk |-> FALSE]
       ELSE IF g.m.LastResponse = Nil
       THEN [p |-> Nil, route |-> route, lastRoute |-> FALSE,
             err |-> ErrMissingPackage, m |-> g.m, ret |-> 104, brk |-> FALSE]
       ELSE LET r == g.m.LastResponse[1].Route
                p == Lookup(reg, r)
                mc == [g.m EXCEPT !.LastResponse = Nil]
            IN IF p = Nil
               THEN [p |-> Nil, route |-> r, lastRoute |-> TRUE,
                     err |-> ErrMissingPackage, m |-> mc, ret |-> 109,
                     brk |-> FALSE]
               ELSE [p |-> p, route |-> r, lastRoute |-> FALSE,
                     err |-> ErrNil, m |-> mc, ret |-> 115, brk |-> FALSE]

\* the branch for p == nil after the loops
getPkgLast(reg, dbv, m, route, dbFail) ==
    LET g == GetLastResponse(dbv, m, dbFail)
    IN IF g.err # ErrNil
       THEN [p |-> Nil, route |-> route, lastRoute |-> FALSE,
             err |-> g.err, m |-> g.m, ret |-> 100, brk |-> FALSE]
       ELSE IF g.m.LastResponse = Nil
       THEN [p |-> Nil, route |-> route, lastRoute |-> FALSE,
             err |-> ErrMissingPackage, m |-> g.m, ret |-> 104, brk |-> FALSE]
       ELSE LET r == g.m.LastResponse[1].Route
                p == Lookup(reg, r)
            IN IF p = Nil
               THEN [p |-> Nil, route |-> r, lastRoute |-> TRUE,
                     err |-> ErrMissingPackage, m |-> g.m, ret |-> 109,
                     brk |-> FALSE]
               ELSE [p |-> p, route |-> r, lastRoute |-> FALSE,
                     err |-> ErrNil, m |-> [g.m EXCEPT !.LastResponse = Nil],
                     ret |-> 115, brk |-> FALSE]

\* variant: without commands the objects are still tried, against an empty
\* command
getPkgUser_objectsAlone(reg, dbv, m, dbFail) ==
    LET st0 == [p |-> Nil, route |-> <<>>, shortRoute |-> <<>>, brk |-> FALSE]
        st == IF Len(m.Commands) = 0
              THEN LoopObjs(reg, <<>>, m.Objects, 1, st0)
              ELSE LoopCmds(reg, m.Commands, m.Objects, 1, st0)
        route == IF Len(st.shortRoute) > 0 THEN st.shortRoute ELSE st.route
    IN IF st.p = Nil
       THEN getPkgLast(reg, dbv, m, route, dbFail)
       ELSE [p |-> st.p, route |-> route, lastRoute |-> FALSE,
             err |-> ErrNil, m |-> m, ret |-> 117, brk |-> st.brk]

\* the branch for m.User != nil
getPkgUser(reg, dbv, m, dbFail) ==
    LET st == LoopCmds(reg, m.Commands, m.Objects, 1,
                  [p |-> Nil, route |-> <<>>, shortRoute |-> <<>>,
                   brk |-> FALSE])
        route == IF Len(st.shortRoute) > 0 THEN st.shortRoute ELSE st.route
    IN IF st.p = Nil
       THEN getPkgLast(reg, dbv, m, route, dbFail)
       ELSE [p |-> st.p, route |-> route, lastRoute |-> FALSE,
             err |-> ErrNil, m |-> m, ret |-> 117, brk |-> st.brk]

\* result: the four values returned (p, route, lastRoute, err), the message
\* after the call, the line of the return statement taken and whether the
\* loops ended by the labelled break
getPkg(reg, dbv, m, dbFail) ==
    IF m.User = NoUser THEN getPkgOnboard(reg, m)
    ELSE getPkgUser(reg, dbv, m, dbFail)

(* ---------------------------------------------------------------------- *)
(* callPkg                                                                 *)
(* ---------------------------------------------------------------------- *)
\* variant: an utterance without commands is not treated as a follow-up
Mode_noEmptyCheck(ctxAdded, lastRoute, cmds) ==
    IF ctxAdded \/ lastRoute THEN DotFollowUp ELSE DotRun

\* variant: ctxAdded is not looked at
Mode_noCtxAdded(ctxAdded, lastRoute, cmds) ==
    IF lastRoute \/ Len(cmds) = 0 THEN DotFollowUp ELSE DotRun

\* the suffix appended to the capitalised package name
Mode(ctxAdded, lastRoute, cmds) ==
    IF ctxAdded \/ lastRoute \/ Len(cmds) = 0 THEN DotFollowUp ELSE DotRun

\* variant: a failed remote call is made a second time, and the second
\* call succeeds
Invoke_retry(c, rpcFail) ==
    [calls |-> IF rpcFail THEN <<c, c>> ELSE <<c>>, err |-> ErrNil]

\* pw.RPCClient.Call(c, m, reply): the remote procedures called, in order,
\* and the error of the call; rpcFail is the outcome of the skill service
Invoke(c, rpcFail) ==
    [calls |-> <<c>>, err |-> IF rpcFail THEN ErrRPC ELSE ErrNil]

\* result: the getPkg result, the remote procedures called (Nil when none),
\* the connection they were called on, the message passed, the error of the
\* remote call, and the three values returned besides the reply (name,
\* route, err)
callPkg(reg, dbv, m, ctxAdded, dbFail, rpcFail) ==
    LET g == getPkg(reg, dbv, m, dbFail)
    IN IF g.err # ErrNil
       THEN [res |-> g, called |-> Nil, conn |-> 0, m |-> g.m,
             pname |-> IF g.p # Nil THEN g.p[1].P.Name ELSE <<>>,
             route |-> g.route, callErr |-> ErrNil, err |-> g.err]
       ELSE LET pw == g.p[1]
                c == Title(pw.P.Name) \o Mode(ctxAdded, g.lastRoute, m.Commands)
                inv == Invoke(c, rpcFail)
            IN [res |-> g, called |-> inv.calls, conn |-> pw.RPCClient,
                m |-> [g.m EXCEPT !.Route = g.route],
                pname |-> pw.P.Name, route |-> g.route,
                callErr |-> inv.err, err |-> inv.err]

(* ---------------------------------------------------------------------- *)
(* state machine                                                           *)
(* ---------------------------------------------------------------------- *)
sGetForecast == sGet \o Underscore \o sForecast

\* goroutines: net/rpc serves every RegisterPackage call in a goroutine of
\* its own, and every utterance is handled in the goroutine of its request
Registrants == {"reg1", "reg2"}
Resolvers == {"res1"}
Goroutines == Registrants \cup Resolvers

\* pc is the line of the source a goroutine stands at: 32 and 58 are the
\* first lines of RegisterPackage and getPkg, 0 is a process that has died
NotStarted(g) == [pc |-> IF g \in Registrants THEN 32 ELSE 58, acc |-> FALSE]

Init ==
    /\ regPkgs = <<>>
    /\ regs = <<>>
    /\ db \in [Users -> {Nil, <<[Route |-> sGetForecast]>>}]
    /\ consumed = [u \in Users |-> FALSE]
    /\ last = [op |-> "idle"]
    /\ gr = [g \in Goroutines |-> NotStarted(g)]

\* Ava.RegisterPackage runs on descriptor p
Register(p, dialOk) ==
    /\ Len(regs) < MaxRegs
    /\ LET cl == Len(regs) + 1
           r == RegisterPackageFn(regPkgs, p, cl, dialOk)
       IN /\ regPkgs' = r.reg
          /\ regs' = IF r.err = ErrNil
                     THEN Append(regs, [P |-> p, RPCClient |-> cl])
                     ELSE regs
          /\ last' = [op |-> "RegisterPackage", p |-> p, cl |-> cl,
                      dialOk |-> dialOk, err |-> r.err,
                      warns |-> r.warns, ins |-> r.ins]
    /\ UNCHANGED <<db, consumed, gr>>

\* a skill service calls Ava.RegisterPackage
RegisterPackage == \E p \in Pkgs, dialOk \in BOOLEAN : Register(p, dialOk)

\* variant: an entry found through the last response is remembered under
\* the first compound key of the utterance
Dispatch_memoizes(user, cmds, objs, lr, ctxAdded, fault) ==
    LET m == Msg(user, cmds, objs, lr, <<>>)
        out == callPkg(regPkgs, db, m, ctxAdded, fault = "db", fault = "rpc")
    IN /\ last.op = "idle"
       /\ last' = [op |-> "callPkg", m |-> m, ctxAdded |-> ctxAdded,
                   out |-> out, preConsumed |-> consumed]
       /\ consumed' = IF out.res.ret = 115
                      THEN [consumed EXCEPT ![user] = TRUE]
                      ELSE consumed
       /\ regPkgs' = IF out.res.ret = 115 /\ Len(cmds) > 0 /\ Len(objs) > 0
                     THEN Insert(regPkgs,
                              ToLower(SplitFirst(cmds[1]) \o Underscore
                                      \o SplitFirst(objs[1])),
                              out.res.p[1])
                     ELSE regPkgs
       /\ UNCHANGED <<regs, db, gr>>

\* callPkg runs on the message of a user with its commands, objects and
\* LastResponse
Dispatch(user, cmds, objs, lr, ctxAdded, fault) ==
    LET m == Msg(user, cmds, objs, lr, <<>>)
        out == callPkg(regPkgs, db, m, ctxAdded, fault = "db", fault = "rpc")
    IN /\ last.op = "idle"
       /\ last' = [op |-> "callPkg", m |-> m, ctxAdded |-> ctxAdded,
                   out |-> out, preConsumed |-> consumed]
       /\ consumed' = IF out.res.ret = 115
                      THEN [consumed EXCEPT ![user] = TRUE]
                      ELSE consumed
       /\ UNCHANGED <<regPkgs, regs, db, gr>>

\* an utterance is dispatched; fault is what goes wrong outside the program
CallPkg ==
    \E user \in Users \cup {NoUser}, cmds \in CmdSeqs, objs \in ObjSeqs,
       ctxAdded \in BOOLEAN, fault \in {"none", "db", "rpc"} :
        \E lr \in IF user = NoUser THEN {Nil, <<[Route |-> sGetForecast]>>}
                  ELSE {Nil} :
            Dispatch(user, cmds, objs, lr, ctxAdded, fault)

\* the response of a completed dispatch is stored as the user's LastResponse
SaveResponse ==
    /\ last.op = "callPkg"
    /\ last.m.User # NoUser
    /\ last.out.err = ErrNil
    /\ db' = [db EXCEPT ![last.m.User] = <<[Route |-> last.out.route]>>]
    /\ consumed' = [consumed EXCEPT ![last.m.User] = FALSE]
    /\ last' = [op |-> "idle"]
    /\ UNCHANGED <<regPkgs, regs, gr>>

\* the caller drops the DispatchResult
Discard ==
    /\ last.op # "idle"
    /\ last' = [op |-> "idle"]
    /\ UNCHANGED <<regPkgs, regs, db, consumed, gr>>

Next == RegisterPackage \/ CallPkg \/ SaveResponse \/ Discard

Spec == Init /\ [][Next]_vars

\* the registrations alone: every registry the program can build
NextReg == RegisterPackage \/ Discard

SpecReg == Init /\ [][NextReg]_vars

\* the same handlers on inputs with an empty token: a descriptor whose
\* trigger has the command "", and utterances in which the tokenizer left
\* the clitic "'s" as a command of its own (cut at the apostrophe it is "")
sClitic == <<"'", "s">>
sEcho == <<"e", "c", "h", "o">>
EmptyCmdPkg == [Name |-> sEcho, Commands |-> <<<<>>>>, Objects |-> <<>>]
CliticCmdSeqs == SeqsUpTo({sClitic, sGet}, MaxCmds)

RegisterAnyPackage ==
    \E p \in Pkgs \cup {EmptyCmdPkg}, dialOk \in BOOLEAN : Register(p, dialOk)

CallPkgClitic ==
    \E cmds \in CliticCmdSeqs, objs \in ObjSeqs, ctxAdded \in BOOLEAN,
       fault \in {"none", "db", "rpc"} :
        Dispatch("u1", cmds, objs, Nil, ctxAdded, fault)

NextEmpty == RegisterAnyPackage \/ CallPkgClitic \/ SaveResponse \/ Discard

SpecEmpty == Init /\ [][NextEmpty]_vars

(* ---------------------------------------------------------------------- *)
(* the handlers step by step: every access to the map regPkgs is a step    *)
(* that begins and a step that ends, and nothing in the source orders the  *)
(* accesses of two goroutines                                              *)
(* ---------------------------------------------------------------------- *)
\* the lines of the source that touch regPkgs
ReadLines == {61, 78, 84, 89, 107}
WriteLines == {51, 53}
CheckLines == {46}
AccessLines == ReadLines \cup WriteLines \cup CheckLines

\* the connection rpc.Dial opens for a goroutine: a new client on every call
ConnOf(g) == IF g = "reg1" THEN 1 ELSE 2

\* utterances handled while registrations are in progress
ConcCmdSeqs == {s \in CmdSeqs : Len(s) <= MaxConcTokens}
ConcObjSeqs == {s \in ObjSeqs : Len(s) <= MaxConcTokens}

\* where RegisterPackage continues at command i, object j
RegPos(p, i, j) ==
    IF i > Len(p.Commands) THEN 55
    ELSE IF j <= Len(p.Objects) THEN 46 ELSE 53

\* where getPkg continues at command i, object j
ResPos(m, i, j) ==
    IF i > Len(m.Commands) THEN 94
    ELSE IF j <= Len(m.Objects) THEN 78 ELSE 89

\* goroutine g is in the middle of an access to regPkgs
InAccess(g) == gr[g].pc \in AccessLines /\ gr[g].acc
Writing(g) == InAccess(g) /\ gr[g].pc \in WriteLines

\* a write to the map overlaps another access to it
Overlap ==
    \E g \in Goroutines, h \in Goroutines :
        g # h /\ Writing(g) /\ InAccess(h)

Step(g, r) == gr' = [gr EXCEPT ![g] = r]

\* the locals of a registrant: s and c of lines 43 and 45, and the wrapper
RegC(g) == CmdKey(gr[g].p.Commands[gr[g].i])
RegS(g) == ToLower(RegC(g) \o Underscore \o gr[g].p.Objects[gr[g].j])
RegE(g) == [P |-> gr[g].p, RPCClient |-> gr[g].cl]

\* lines 33-41: the handler starts and dials the skill service
RegDial ==
    \E g \in Registrants, p \in Pkgs, dialOk \in BOOLEAN :
        /\ gr[g].pc = 32
        /\ IF dialOk
           THEN Step(g, [pc |-> RegPos(p, 1, 1), acc |-> FALSE, p |-> p,
                         cl |-> ConnOf(g), i |-> 1, j |-> 1, err |-> ErrNil])
           ELSE Step(g, [pc |-> 40, acc |-> FALSE, p |-> p, cl |-> 0,
                         i |-> 1, j |-> 1, err |-> ErrDial])
        /\ regs' = IF dialOk /\ RegPos(p, 1, 1) = 55
                   THEN Append(regs, [P |-> p, RPCClient |-> ConnOf(g)])
                   ELSE regs
        /\ UNCHANGED <<regPkgs, db, consumed, last>>

\* a goroutine enters the map access of the line it stands at
BeginAccess ==
    \E g \in Goroutines :
        /\ gr[g].pc \in AccessLines
        /\ ~gr[g].acc
        /\ Step(g, [gr[g] EXCEPT !.acc = TRUE])
        /\ UNCHANGED <<regPkgs, regs, db, consumed, last>>

\* line 46: regPkgs[s] != nil
RegCheckDuplicate ==
    \E g \in Registrants :
        /\ gr[g].pc = 46 /\ gr[g].acc
        /\ Step(g, [gr[g] EXCEPT !.pc = 51, !.acc = FALSE])
        /\ UNCHANGED <<regPkgs, regs, db, consumed, last>>

\* line 51: regPkgs[s] = &pkg.PkgWrapper{...}
RegPutCompound ==
    \E g \in Registrants :
        /\ gr[g].pc = 51 /\ gr[g].acc
        /\ regPkgs' = Insert(regPkgs, RegS(g), RegE(g))
        /\ Step(g, [gr[g] EXCEPT !.pc = RegPos(gr[g].p, gr[g].i, gr[g].j + 1),
                                 !.acc = FALSE, !.j = gr[g].j + 1])
        /\ UNCHANGED <<regs, db, consumed, last>>

\* line 53: regPkgs[c] = &pkg.PkgWrapper{...}; line 55 once the commands are
\* exhausted
RegPutBare ==
    \E g \in Registrants :
        /\ gr[g].pc = 53 /\ gr[g].acc
        /\ regPkgs' = Insert(regPkgs, RegC(g), RegE(g))
        /\ Step(g, [gr[g] EXCEPT !.pc = RegPos(gr[g].p, gr[g].i + 1, 1),
                                 !.acc = FALSE, !.i = gr[g].i + 1, !.j = 1])
        /\ regs' = IF RegPos(gr[g].p, gr[g].i + 1, 1) = 55
                   THEN Append(regs, RegE(g))
                   ELSE regs
        /\ UNCHANGED <<db, consumed, last>>

\* the locals of a resolver: c, o and route of lines 74, 76 and 77
ResC(g) == SplitFirst(gr[g].m.Commands[gr[g].i])
ResO(g) == SplitFirst(gr[g].m.Objects[gr[g].j])
ResRoute(g) == ToLower(ResC(g) \o Underscore \o ResO(g))

\* lines 58-71: getPkg starts on a message
ResReceive ==
    \E g \in Resolvers, user \in Users \cup {NoUser},
       cmds \in ConcCmdSeqs, objs \in ConcObjSeqs :
        LET m == Msg(user, cmds, objs, Nil, <<>>)
        IN /\ gr[g].pc = 58
           /\ Step(g, [pc |-> IF user = NoUser THEN 61 ELSE ResPos(m, 1, 1),
                       acc |-> FALSE, m |-> m, i |-> 1, j |-> 1, p |-> Nil,
                       route |-> <<>>, shortRoute |-> <<>>, err |-> ErrNil])
           /\ UNCHANGED <<regPkgs, regs, db, consumed, last>>

\* lines 61-67: p = regPkgs["onboard"]
ResOnboard ==
    \E g \in Resolvers :
        LET r == getPkgOnboard(regPkgs, gr[g].m)
        IN /\ gr[g].pc = 61 /\ gr[g].acc
           /\ Step(g, [gr[g] EXCEPT !.pc = r.ret, !.acc = FALSE, !.p = r.p,
                                    !.route = r.route, !.err = r.err])
           /\ UNCHANGED <<regPkgs, regs, db, consumed, last>>

\* lines 77-83: p = regPkgs[route], and the labelled break on a hit
ResCompound ==
    \E g \in Resolvers :
        LET p == Lookup(regPkgs, ResRoute(g))
        IN /\ gr[g].pc = 78 /\ gr[g].acc
           /\ Step(g, [gr[g] EXCEPT
                         !.pc = IF p # Nil THEN 94 ELSE 84,
                         !.acc = FALSE, !.p = p, !.route = ResRoute(g),
                         !.shortRoute = IF p # Nil THEN <<>> ELSE @])
           /\ UNCHANGED <<regPkgs, regs, db, consumed, last>>

\* lines 84-87: p = regPkgs[o]
ResBareObject ==
    \E g \in Resolvers :
        LET p == Lookup(regPkgs, ResO(g))
        IN /\ gr[g].pc = 84 /\ gr[g].acc
           /\ Step(g, [gr[g] EXCEPT
                         !.pc = ResPos(gr[g].m, gr[g].i, gr[g].j + 1),
                         !.acc = FALSE, !.p = p, !.j = gr[g].j + 1,
                         !.shortRoute = IF p # Nil THEN ResO(g) ELSE @])
           /\ UNCHANGED <<regPkgs, regs, db, consumed, last>>

\* lines 89-92: p = regPkgs[c]
ResBareCommand ==
    \E g \in Resolvers :
        LET p == Lookup(regPkgs, ResC(g))
        IN /\ gr[g].pc = 89 /\ gr[g].acc
           /\ Step(g, [gr[g] EXCEPT
                         !.pc = ResPos(gr[g].m, gr[g].i + 1, 1),
                         !.acc = FALSE, !.p = p, !.i = gr[g].i + 1, !.j = 1,
                         !.shortRoute = IF p # Nil THEN ResC(g) ELSE @])
           /\ UNCHANGED <<regPkgs, regs, db, consumed, last>>

\* lines 94-106 and 117: after the loops, up to the lookup of the last route
ResAfterLoops ==
    \E g \in Resolvers, dbFail \in BOOLEAN :
        LET route == IF Len(gr[g].shortRoute) > 0 THEN gr[g].shortRoute
                     ELSE gr[g].route
            l == GetLastResponse(db, gr[g].m, dbFail)
        IN /\ gr[g].pc = 94
           /\ IF gr[g].p # Nil
              THEN Step(g, [gr[g] EXCEPT !.pc = 117, !.route = route])
              ELSE IF l.err # ErrNil
              THEN Step(g, [gr[g] EXCEPT !.pc = 100, !.route = route,
                                         !.err = l.err])
              ELSE IF l.m.LastResponse = Nil
              THEN Step(g, [gr[g] EXCEPT !.pc = 104, !.route = route,
                                         !.m = l.m,
                                         !.err = ErrMissingPackage])
              ELSE Step(g, [gr[g] EXCEPT !.pc = 107, !.m = l.m,
                                !.route = l.m.LastResponse[1].Route])
           /\ UNCHANGED <<regPkgs, regs, db, consumed, last>>

\* lines 107-115: p = regPkgs[route] for the route of the last response
ResLastRoute ==
    \E g \in Resolvers :
        LET p == Lookup(regPkgs, gr[g].route)
        IN /\ gr[g].pc = 107 /\ gr[g].acc
           /\ Step(g, [gr[g] EXCEPT
                         !.pc = IF p = Nil THEN 109 ELSE 115,
                         !.acc = FALSE, !.p = p,
                         !.err = IF p = Nil THEN ErrMissingPackage ELSE ErrNil,
                         !.m = IF p = Nil THEN @
                               ELSE [@ EXCEPT !.LastResponse = Nil]])
           /\ UNCHANGED <<regPkgs, regs, db, consumed, last>>

\* a write that overlaps another access is a data race on a Go map: the
\* accesses may complete in either order (the steps above), or the runtime
\* detects the race and throws, which ends the process
Throw ==
    /\ Overlap
    /\ gr' = [g \in Goroutines |-> [pc |-> 0, acc |-> FALSE]]
    /\ UNCHANGED <<regPkgs, regs, db, consumed, last>>

NextConc ==
    \/ RegDial \/ BeginAccess \/ RegCheckDuplicate \/ RegPutCompound
    \/ RegPutBare \/ ResReceive \/ ResOnboard \/ ResCompound
    \/ ResBareObject \/ ResBareCommand \/ ResAfterLoops \/ ResLastRoute
    \/ Throw

SpecConc == Init /\ [][NextConc]_vars

(* ---------------------------------------------------------------------- *)
(* Properties                                                              *)
(* ---------------------------------------------------------------------- *)
IsCall == last.op = "callPkg"
IsReg == last.op = "RegisterPackage"

\* the key a (command, object) pair of an utterance stands for: each token
\* cut at its first apostrophe and lowercased, joined by "_"
CompoundKey(c, o) ==
    ToLower(SplitFirst(c)) \o Underscore \o ToLower(SplitFirst(o))

\* the keys a descriptor's trigger derives at registration
DerivedKeys(p) ==
    {ToLower(p.Commands[i]) \o Underscore \o ToLower(p.Objects[j]) :
        i \in 1..Len(p.Commands), j \in 1..Len(p.Objects)}
    \cup {ToLower(p.Commands[i]) : i \in 1..Len(p.Commands)}

\* C1: for an utterance without a user, getPkg returns route "onboard" with
\* the entry registered under "onboard", or fails with ErrMissingPackage when
\* that key is not registered, whatever the commands, objects and
\* LastResponse of the utterance are.
C1_OnboardWithoutUser ==
    (IsCall /\ last.m.User = NoUser) =>
        LET r == last.out.res
        IN /\ r.route = OnboardKey
           /\ IF OnboardKey \in DOMAIN regPkgs
              THEN r.p = <<regPkgs[OnboardKey]>> /\ r.err = ErrNil
              ELSE r.p = Nil /\ r.err = ErrMissingPackage

\* an utterance without a user whose commands and objects have a registered
\* compound key, and which carries a LastResponse, resolved to "onboard"
C1_Witness ==
    /\ IsCall /\ last.m.User = NoUser
    /\ last.m.Commands = <<sGet>> /\ last.m.Objects = <<sForecast>>
    /\ sGetForecast \in DOMAIN regPkgs
    /\ last.m.LastResponse # Nil
    /\ last.out.res.err = ErrNil
    /\ last.out.res.route = OnboardKey

\* the (command, object) positions of the utterance whose compound key is
\* registered
HitPairs(m) ==
    {ij \in (1..Len(m.Commands)) \X (1..Len(m.Objects)) :
        CompoundKey(m.Commands[ij[1]], m.Objects[ij[2]]) \in DOMAIN regPkgs}

Before(a, b) == a[1] < b[1] \/ (a[1] = b[1] /\ a[2] < b[2])

FirstHit(m) == CHOOSE a \in HitPairs(m) : \A b \in HitPairs(m) : a = b \/ Before(a, b)

\* C2: for an utterance with a user in which some (command, object) pair has
\* a registered compound key, getPkg returns the key and entry of the first
\* such pair in iteration order (commands outer, objects inner), whatever
\* fallback candidates were or would be recorded.
C2_FirstExactMatchWins ==
    (IsCall /\ last.m.User # NoUser /\ HitPairs(last.m) # {}) =>
        LET r == last.out.res
            a == FirstHit(last.m)
            k == CompoundKey(last.m.Commands[a[1]], last.m.Objects[a[2]])
        IN /\ r.err = ErrNil
           /\ r.route = k
           /\ r.p = <<regPkgs[k]>>

\* an exact match found after a bare object key was met in an earlier
\* iteration, with a registered bare command key still to come
C2_Witness ==
    /\ IsCall /\ last.m.User # NoUser /\ HitPairs(last.m) # {}
    /\ LET a == FirstHit(last.m)
       IN /\ a[2] > 1
          /\ \E j \in 1..(a[2] - 1) :
                SplitFirst(last.m.Objects[j]) \in DOMAIN regPkgs
          /\ SplitFirst(last.m.Commands[a[1]]) \in DOMAIN regPkgs
    /\ last.out.res.err = ErrNil

\* the registrations, by position in regs, that derived key k
Deriving(k) == {i \in 1..Len(regs) : k \in DerivedKeys(regs[i].P)}

LastDeriving(k) == CHOOSE i \in Deriving(k) : \A j \in Deriving(k) : j <= i

\* C3: every registry key maps to the descriptor and connection of the most
\* recent successful registration that derived it; an exact match resolves
\* to that registration's entry; and a registration whose dial succeeded
\* returns no error even when it overwrote keys.
C3_LastRegistrationWins ==
    /\ DOMAIN regPkgs = UNION {DerivedKeys(regs[i].P) : i \in 1..Len(regs)}
    /\ \A k \in DOMAIN regPkgs : regPkgs[k] = regs[LastDeriving(k)]
    /\ (IsCall /\ last.out.res.brk) =>
           last.out.res.p = <<regs[LastDeriving(last.out.res.route)]>>
    /\ (IsReg /\ last.dialOk) => last.err = ErrNil

\* two different skills registered the trigger get/forecast, and the
\* utterance get/forecast then resolved to the second one
C3_Witness ==
    /\ Len(regs) = 2
    /\ regs[1].P.Name # regs[2].P.Name
    /\ Deriving(sGetForecast) = {1, 2}
    /\ IsCall /\ last.out.res.brk
    /\ last.out.res.route = sGetForecast
    /\ last.out.pname = regs[2].P.Name

\* the remote procedure "<SkillName><suffix>" of the entry getPkg returned
Proc(suffix) == <<Title(last.out.res.p[1].P.Name) \o suffix>>

\* C4: once a user's stored LastResponse has resolved a route, a further
\* getPkg for that user that finds no fresh match fails with
\* ErrMissingPackage unless a new LastResponse was stored in between.
C4_FallbackConsumedOnce ==
    (/\ IsCall /\ last.m.User # NoUser
     /\ last.out.res.ret \in {104, 109, 115}
     /\ last.preConsumed[last.m.User]) =>
        last.out.res.err = ErrMissingPackage

\* C5: a dispatch that resolves for an utterance without command tokens
\* calls "<SkillName>.FollowUp", never "<SkillName>.Run", whatever ctxAdded
\* and the object tokens are.
C5_NoCommandsFollowUp ==
    (IsCall /\ last.out.res.err = ErrNil /\ Len(last.m.Commands) = 0) =>
        /\ last.out.called = Proc(DotFollowUp)
        /\ last.out.called # Proc(DotRun)

\* an utterance of a user with objects and no commands was dispatched with
\* ctxAdded false
C5_Witness ==
    /\ IsCall /\ last.out.res.err = ErrNil
    /\ last.m.User # NoUser
    /\ Len(last.m.Commands) = 0 /\ Len(last.m.Objects) > 0
    /\ ~last.ctxAdded
    /\ last.out.called # Nil

\* C6: when getPkg succeeds by the route of the user's LastResponse, it
\* reports a last-route fallback and callPkg calls FollowUp.
C6_LastRouteIsFollowUp ==
    (IsCall /\ last.out.res.ret = 115) =>
        /\ last.out.res.lastRoute
        /\ last.out.called = Proc(DotFollowUp)

sWeatherRun == <<"W","e","a","t","h","e","r",".","R","u","n">>

\* C7: a dispatch for a user with at least one command that resolves by a
\* fresh match calls "<SkillName>.Run" when ctxAdded is false and
\* "<SkillName>.FollowUp" when it is true; weather registered for
\* get/forecast and the utterance get/forecast give route "get_forecast" and
\* "Weather.Run".
C7_FreshMatchMode ==
    /\ (/\ IsCall /\ last.m.User # NoUser /\ Len(last.m.Commands) >= 1
        /\ last.out.res.ret = 117) =>
           last.out.called =
               Proc(IF last.ctxAdded THEN DotFollowUp ELSE DotRun)
    /\ (/\ IsCall /\ last.m.User # NoUser /\ ~last.ctxAdded
        /\ last.m.Commands = <<sGet>> /\ last.m.Objects = <<sForecast>>
        /\ sGetForecast \in DOMAIN regPkgs
        /\ regPkgs[sGetForecast].P.Name = sWeather) =>
           /\ last.out.res.route = sGetForecast
           /\ last.out.called = <<sWeatherRun>>

\* the weather scenario: one registration, then the utterance get/forecast
C7_Witness ==
    /\ IsCall /\ last.m.User # NoUser /\ ~last.ctxAdded
    /\ Len(regs) = 1 /\ regs[1].P.Name = sWeather
    /\ last.m.Commands = <<sGet>> /\ last.m.Objects = <<sForecast>>
    /\ last.out.res.ret = 117 /\ last.out.res.brk
    /\ last.out.res.route = sGetForecast
    /\ last.out.called = <<sWeatherRun>>

\* C8: a registration whose dial fails returns the dial error and leaves the
\* registry exactly as it was.
C8_DialFailureKeepsRegistry ==
    [][(last'.op = "RegisterPackage" /\ ~last'.dialOk) =>
          (last'.err = ErrDial /\ regPkgs' = regPkgs)]_vars

\* a registration failed at the dial while another skill held a key of its
\* trigger
C8_Witness ==
    /\ IsReg /\ ~last.dialOk
    /\ \E k \in DerivedKeys(last.p) \cap DOMAIN regPkgs :
          regPkgs[k].P # last.p

\* C9: a successful registration maps every derived key (lowercased
\* command_object, and lowercased bare command) to the descriptor and its
\* connection, and leaves every other key as it was.
C9_RegistrationEffect ==
    [][(last'.op = "RegisterPackage" /\ last'.err = ErrNil) =>
          /\ \A k \in DerivedKeys(last'.p) :
                /\ k \in DOMAIN regPkgs'
                /\ regPkgs'[k] = [P |-> last'.p, RPCClient |-> last'.cl]
          /\ \A k \in (DOMAIN regPkgs \cup DOMAIN regPkgs')
                         \ DerivedKeys(last'.p) :
                /\ k \in DOMAIN regPkgs /\ k \in DOMAIN regPkgs'
                /\ regPkgs'[k] = regPkgs[k]]_vars

\* weather registered after news: it took over the keys "get_forecast" and
\* "get" and left "get_news" to news
C9_Witness ==
    /\ IsReg /\ last.err = ErrNil
    /\ Len(regs) = 2
    /\ regs[1].P.Name = sNews /\ last.p.Name = sWeather
    /\ regPkgs[sGet \o Underscore \o sNews] = regs[1]
    /\ regPkgs[sGetForecast] = regs[2]
    /\ regPkgs[sGet] = regs[2]

\* C10: every insertion of a registration that finds its key present logs a
\* warning, for bare command keys as for compound keys.
C10_OverwriteWarns ==
    IsReg => \A n \in 1..Len(last.ins) :
                 last.ins[n].present => last.ins[n].warned

\* C11: in every interleaving of RegisterPackage calls with each other and
\* with getPkg lookups in progress, a goroutine that is in the middle of a
\* write to regPkgs is the only goroutine in the middle of an access to it,
\* and the runtime never ends the process over a concurrent map access
C11_RegistryAccessExclusive ==
    /\ \A g \in Goroutines, h \in Goroutines :
           (g # h /\ gr[g].pc \in AccessLines /\ gr[g].acc
                  /\ gr[h].pc \in AccessLines /\ gr[h].acc)
               => (gr[g].pc \notin WriteLines /\ gr[h].pc \notin WriteLines)
    /\ \A g \in Goroutines : gr[g].pc # 0

\* the bare keys getPkg looks up after a compound key missed, in iteration
\* order: for every command, the objects cut at the apostrophe, then the
\* command cut at the apostrophe
BareLookups(m) ==
    LET w == Len(m.Objects) + 1
    IN [k \in 1..(Len(m.Commands) * w) |->
           LET i == ((k - 1) \div w) + 1
               r == ((k - 1) % w) + 1
           IN IF r < w THEN SplitFirst(m.Objects[r])
              ELSE SplitFirst(m.Commands[i])]

\* the positions of BareLookups whose key is registered: the fallback
\* candidates recorded when no compound key is registered
Recorded(m) == {k \in DOMAIN BareLookups(m) : BareLookups(m)[k] \in DOMAIN regPkgs}

\* C12: for an utterance with a user in which no (command, object) pair has
\* a registered compound key and some bare object or bare command key is
\* registered, getPkg succeeds on the fresh path (without GetLastResponse)
\* with the key of a recorded candidate as route and the entry of that key.
C12_FallbackCandidateResolves ==
    (IsCall /\ last.m.User # NoUser /\ HitPairs(last.m) = {}
            /\ Recorded(last.m) # {}) =>
        LET r == last.out.res
        IN /\ r.err = ErrNil
           /\ r.ret = 117
           /\ r.route \in {BareLookups(last.m)[k] : k \in Recorded(last.m)}
           /\ r.p = <<regPkgs[r.route]>>

\* the last position of BareLookups whose key is registered
LastRecorded(m) == CHOOSE k \in Recorded(m) : \A n \in Recorded(m) : n <= k

\* C13: when no compound key of the utterance is registered, the candidate
\* recorded last in iteration order (within a command's pass the bare command
\* key comes after the bare object keys) is the one getPkg returns: the route
\* is that candidate's key and the entry is the registry's entry for it.
C13_LastCandidateWins ==
    (IsCall /\ last.m.User # NoUser /\ HitPairs(last.m) = {}
            /\ Recorded(last.m) # {}) =>
        LET r == last.out.res
            k == BareLookups(last.m)[LastRecorded(last.m)]
        IN /\ r.route = k
           /\ r.p = <<regPkgs[k]>>

\* the LastResponse getPkg has on the message once GetLastResponse returned:
\* the stored one, or what the message arrived with when the lookup failed
LastSeen(m, r) == IF r.ret = 100 THEN m.LastResponse ELSE db[m.User]

\* that LastResponse is absent, or its route is not registered
NoLastRoute(m, r) ==
    \/ LastSeen(m, r) = Nil
    \/ LastSeen(m, r)[1].Route \notin DOMAIN regPkgs

\* C14 as stated: for an utterance with a user in which no compound key and
\* no bare key is registered, getPkg fails with ErrMissingPackage and returns
\* no entry whenever the user's LastResponse is absent or its route is not
\* registered, and in the second case m.LastResponse is not cleared.
C14_Original ==
    (IsCall /\ last.m.User # NoUser /\ HitPairs(last.m) = {}
            /\ Recorded(last.m) = {}
            /\ NoLastRoute(last.m, last.out.res)) =>
        LET r == last.out.res
        IN /\ r.err = ErrMissingPackage
           /\ r.p = Nil
           /\ LastSeen(last.m, r) # Nil =>
                  r.m.LastResponse = LastSeen(last.m, r)

\* C14: for an utterance with a user in which no compound key and no bare key
\* is registered: when GetLastResponse returns an error, getPkg returns that
\* error and no entry; otherwise, whenever the user's LastResponse is absent
\* or its route is not registered, getPkg fails with ErrMissingPackage and
\* returns no entry, and in the second case m.LastResponse is not cleared.
C14_MissingPackageAfterLookup ==
    (IsCall /\ last.m.User # NoUser /\ HitPairs(last.m) = {}
            /\ Recorded(last.m) = {}) =>
        LET r == last.out.res
        IN IF r.ret = 100
           THEN r.err = ErrDB /\ r.p = Nil
           ELSE NoLastRoute(last.m, r) =>
                   /\ r.err = ErrMissingPackage
                   /\ r.p = Nil
                   /\ r.ret \in {104, 109}
                   /\ db[last.m.User] # Nil =>
                          (r.ret = 109 /\ r.m.LastResponse = db[last.m.User])

\* skills are registered, none of them under a key of the utterance, and the
\* route of the user's LastResponse is not registered: ErrMissingPackage,
\* with the LastResponse still on the message
C14_Witness ==
    /\ IsCall /\ last.m.User # NoUser
    /\ Len(last.m.Commands) > 0 /\ Len(last.m.Objects) > 0
    /\ HitPairs(last.m) = {} /\ Recorded(last.m) = {}
    /\ regPkgs # <<>>
    /\ db[last.m.User] # Nil
    /\ db[last.m.User][1].Route \notin DOMAIN regPkgs
    /\ last.out.res.ret = 109
    /\ last.out.res.err = ErrMissingPackage
    /\ last.out.res.m.LastResponse = db[last.m.User]

\* C15: a dispatch makes at most one remote call; when getPkg fails no remote
\* call is made, m.Route is left as it was and the error of getPkg is
\* returned with its route; when getPkg succeeds exactly one remote call is
\* made, and when that call fails its error is returned together with the
\* package name and the resolved route.
C15_OneCallNoRetry ==
    IsCall =>
        LET o == last.out
        IN /\ Len(o.called) <= 1
           /\ o.res.err # ErrNil =>
                 /\ o.called = Nil
                 /\ o.m.Route = last.m.Route
                 /\ o.err = o.res.err
                 /\ o.route = o.res.route
           /\ o.res.err = ErrNil =>
                 /\ Len(o.called) = 1
                 /\ o.err = o.callErr
                 /\ o.callErr # ErrNil =>
                       /\ o.pname = o.res.p[1].P.Name
                       /\ o.route = o.res.route

\* the one remote call of a dispatch failed: its error came back with the
\* name of the skill and the route
C15_Witness ==
    /\ IsCall
    /\ last.out.res.err = ErrNil
    /\ Len(last.out.called) = 1
    /\ last.out.callErr = ErrRPC
    /\ last.out.err = ErrRPC
    /\ last.out.pname = sWeather
    /\ last.out.route = sGetForecast

\* C16: on every dispatch whose getPkg succeeds, the entry used is the
\* registry's entry for the returned route, the remote call goes over that
\* entry's connection with a procedure name that starts with that entry's
\* capitalised package name, the message passed carries the returned route,
\* and the name returned is that entry's package name.
C16_ResolvedTripleConsistent ==
    (IsCall /\ last.out.res.err = ErrNil) =>
        LET o == last.out
            k == o.res.route
        IN /\ k \in DOMAIN regPkgs
           /\ o.res.p = <<regPkgs[k]>>
           /\ o.conn = regPkgs[k].RPCClient
           /\ \E suffix \in {DotRun, DotFollowUp} :
                  o.called = <<Title(regPkgs[k].P.Name) \o suffix>>
           /\ o.m.Route = k
           /\ o.route = k
           /\ o.pname = regPkgs[k].P.Name

\* C17: in every reachable registry, all entries whose descriptor names the
\* same skill hold the same connection, also after the skill registered
\* again with another trigger.
C17_OneConnectionPerSkill ==
    \A k1 \in DOMAIN regPkgs, k2 \in DOMAIN regPkgs :
        regPkgs[k1].P.Name = regPkgs[k2].P.Name =>
            regPkgs[k1].RPCClient = regPkgs[k2].RPCClient

\* C18: no dispatch, whether getPkg succeeds or fails and whichever return
\* it takes, changes the registry: a step that runs callPkg leaves regPkgs as
\* it was, and a step that changes regPkgs is a RegisterPackage.
C18_LookupIsPureRead ==
    [][/\ last'.op = "callPkg" => regPkgs' = regPkgs
       /\ regPkgs' # regPkgs => last'.op = "RegisterPackage"]_vars

\* a dispatch on a registry of two registrations that went through the
\* lookup of the last response's route
C18_Witness ==
    /\ IsCall
    /\ Len(regs) = 2
    /\ Len(last.m.Commands) > 0 /\ Len(last.m.Objects) > 0
    /\ last.out.res.ret = 115
    /\ last.out.err = ErrNil

\* C19: for an utterance with a user and no command tokens, getPkg never
\* returns a fresh match whatever the objects are, and the outcome is that
\* of the LastResponse alone: success with its route and the entry of that
\* route when it is there and the route is registered, an error and no entry
\* otherwise.
C19_NoCommandsIgnoresObjects ==
    (IsCall /\ last.m.User # NoUser /\ Len(last.m.Commands) = 0) =>
        LET r == last.out.res
            lr == LastSeen(last.m, r)
        IN /\ r.ret # 117 /\ ~r.brk
           /\ IF lr # Nil /\ lr[1].Route \in DOMAIN regPkgs
              THEN /\ r.err = ErrNil
                   /\ r.route = lr[1].Route
                   /\ r.p = <<regPkgs[r.route]>>
              ELSE r.err # ErrNil /\ r.p = Nil

\* no commands, the object "forecast" with the bare key "forecast"
\* registered, and the user's last route registered too: the route returned
\* is the last route
C19_Witness ==
    /\ IsCall /\ last.m.User # NoUser
    /\ last.m.Commands = <<>>
    /\ last.m.Objects = <<sForecast>>
    /\ sForecast \in DOMAIN regPkgs
    /\ last.out.res.ret = 115
    /\ last.out.res.route = sGetForecast

\* C20: no step removes a key of the registry, and a key keeps its entry
\* unless the step is a registration whose trigger derives that key; in
\* particular a key a skill no longer derives when it registers again keeps
\* the entry of the earlier registration.
C20_KeysOnlyGrow ==
    [][/\ DOMAIN regPkgs \subseteq DOMAIN regPkgs'
       /\ \A k \in DOMAIN regPkgs :
              \/ regPkgs'[k] = regPkgs[k]
              \/ /\ last'.op = "RegisterPackage"
                 /\ last'.err = ErrNil
                 /\ k \in DerivedKeys(last'.p)]_vars

\* weather registered again with another trigger: "get_forecast", which the
\* new trigger does not derive, still maps to the first registration
C20_Witness ==
    /\ IsReg /\ last.err = ErrNil
    /\ Len(regs) = 2
    /\ regs[1].P.Name = sWeather /\ regs[2].P.Name = sWeather
    /\ sGetForecast \in DerivedKeys(regs[1].P)
    /\ sGetForecast \notin DerivedKeys(regs[2].P)
    /\ sGetForecast \in DOMAIN regPkgs
    /\ regPkgs[sGetForecast] = regs[1]

====
